---- MODULE Spec2Model ----
(***************************************************************************)
(* Model of runtime/src/bin/calibration.rs: the end-stop calibration of a   *)
(* servo (calibrate_servo) and the cleanup done by main.                    *)
(*                                                                          *)
(* A program position "Lnn" means: line nn of calibration.rs is the next    *)
(* statement to execute.  Every bus operation of the Servo (set_speed,      *)
(* read_info, set_mode, write, enable_readout, disable_readout) is one      *)
(* atomic step that either succeeds or fails (Result); the Ctrl-C handler   *)
(* (lines 234-237) runs on its own thread and may clear `running` between   *)
(* any two steps.                                                           *)
(***************************************************************************)
EXTENDS Integers, Sequences, FiniteSets, TLC

\* ------------------------------------------------------------------ constants
CURRENT_THRESHOLD == 500
CALIBRATION_SPEED == 250
MIN_SPEED == 10

SERVO_ADDR_EEPROM_WRITE == 55
SERVO_ADDR_POSITION_CORRECTION == 31
SERVO_ADDR_MIN_ANGLE == 9
SERVO_ADDR_MAX_ANGLE == 11
SERVO_ADDR_OPERATION_MODE == 33
SERVO_ADDR_TARGET_POSITION == 42
SERVO_ADDR_TORQUE_ENABLE == 40

\* ------------------------------------------------------------------ inputs
\* Raw current_current samples the actuator may report.  7692 -> 499.98 mA,
\* 7693 -> 500.045 mA, 15384 -> 999.96 mA, 15385 -> 1000.025 mA.
RawCurrents == {0, 7692, 7693, 15384, 15385}

\* current_location readings the actuator may report in a full run.
Positions == {50, 100, 3200, 3900}

\* ------------------------------------------------------------------ helpers
\* `info.current_current as f32 * 6.5 / 100.0` (mA), kept exact as micro-amps:
\* raw * 6.5 is exact in f32 (raw < 2^16), the division by 100 is correctly
\* rounded and monotone, and no raw value lands within an ulp of 500 or 1000,
\* so the f32 comparisons agree with the exact ones below.
CurrentMicroAmps(raw) == raw * 65

\* line 55 comparing the raw register value, without the conversion of line 53
CoarseStall_raw(raw) == raw > CURRENT_THRESHOLD

\* `current > CURRENT_THRESHOLD` (line 55)
CoarseStall(raw) == CurrentMicroAmps(raw) > CURRENT_THRESHOLD * 1000

\* `current <= CURRENT_THRESHOLD * 2.0` (line 73)
FineContinue(raw) == CurrentMicroAmps(raw) <= CURRENT_THRESHOLD * 2 * 1000

\* `let direction = if pass == 0 { 1 } else { -1 }` (line 31)
Direction(p) == IF p = 0 THEN 1 ELSE -1

\* `x as u16` of a 16-bit signed value
AsU16(x) == x % 65536

\* the two bytes of line 217 in the other order (high byte first)
LittleEndian_swapped(value) == <<(value \div 256) % 256, value % 256>>

\* `[(value & 0xFF) as u8, ((value >> 8) & 0xFF) as u8]` (lines 192, 217)
LittleEndian(value) == <<value % 256, (value \div 256) % 256>>

\* ------------------------------------------------------------------ RangeCalculator
\* lines 141-145 with `<` for `<=`: equal boundaries get no wraparound
NormalizedMax_strict(forward, backward) ==
    IF forward < backward THEN forward + 4096 ELSE forward

\* lines 141-145
NormalizedMax(forward, backward) ==
    IF forward <= backward THEN forward + 4096 ELSE forward

\* lines 147-149.  The boundaries are signed integers (line 152 compares the
\* offset with 0); for encoder readings 0..4095 every intermediate value lies
\* within -2048..8191, so 16-bit arithmetic never wraps.
CenterDistance(mx, mn) == (mx - mn) \div 2

OffsetOf(mx, mn) == mn + CenterDistance(mx, mn) - 2048

\* lines 152-156 without `| 0x800`: the sign bit is never set
EncodeOffset_no_sign(off) == off % 2048

\* lines 152-156: `offset & 0x7FF` on the two's complement value keeps the low
\* 11 bits, i.e. offset modulo 2048; 0x800 is OR'd in when offset < 0.
EncodeOffset(off) ==
    IF off < 0 THEN (off % 2048) + 2048 ELSE off % 2048

\* ------------------------------------------------------------------ state
VARIABLES
    pc,            \* next statement to execute
    running,       \* the AtomicBool shared with the Ctrl-C handler
    pass,          \* loop variable of `for pass in 0..2`
    current,       \* raw sample behind the local `current`
    fineRead,      \* a sample was read by the fine loop of this sweep (line 80)
    exact,         \* info.current_location read at line 89
    max_forward, max_backward,
    min_angle, max_angle, offset, offset_value,
    speeds,        \* set_speed calls issued so far
    writes,        \* servo.write calls issued so far
    readout,       \* periodic readout enabled
    mode,          \* actuator operation mode
    result,        \* value returned by calibrate_servo
    exit,          \* value returned by main
    clearedAt,     \* position of the program when `running` was cleared
    observed       \* which cancellation check saw the flag cleared

vars == <<pc, running, pass, current, fineRead, exact, max_forward, max_backward,
          min_angle, max_angle, offset, offset_value, speeds, writes,
          readout, mode, result, exit, clearedAt, observed>>

locals == <<pass, current, fineRead, exact, max_forward, max_backward,
            min_angle, max_angle, offset, offset_value>>

calc == <<min_angle, max_angle, offset, offset_value>>

Init ==
    /\ pc = "L24"
    /\ running = TRUE
    /\ pass = 0
    /\ current = 0
    /\ fineRead = FALSE
    /\ exact = 0
    /\ max_forward = 0
    /\ max_backward = 0
    /\ min_angle = 0
    /\ max_angle = 0
    /\ offset = 0
    /\ offset_value = 0
    /\ speeds = <<>>
    /\ writes = <<>>
    /\ readout \in BOOLEAN
    /\ mode \in {0, 1}
    /\ result = "none"
    /\ exit = "none"
    /\ clearedAt = "none"
    /\ observed = "none"

\* ------------------------------------------------------------------ bus operations
\* `?` on a failed operation: calibrate_servo returns Err to main (line 240).
Propagate(ok, next) ==
    IF ok THEN pc' = next /\ result' = result
          ELSE pc' = "L242" /\ result' = "Err"

\* servo.set_speed(servo_id, speed, direction)?
set_speed(speed, direction, next) ==
    \E ok \in BOOLEAN :
        /\ speeds' = Append(speeds, [speed |-> speed, direction |-> direction, ok |-> ok])
        /\ Propagate(ok, next)

\* servo.write(servo_id, address, data)?
write(address, data, next) ==
    \E ok \in BOOLEAN :
        /\ writes' = Append(writes, [address |-> address, data |-> data, ok |-> ok])
        /\ mode' = IF ok /\ address = SERVO_ADDR_OPERATION_MODE THEN data[1] ELSE mode
        /\ Propagate(ok, next)

\* write_servo_memory(servo, id, address, value)? (lines 216-219)
write_servo_memory(address, value, next) ==
    write(address, LittleEndian(value), next)

\* ------------------------------------------------------------------ Ctrl-C handler
\* lines 234-237: r.store(false)
Interrupt ==
    /\ running
    /\ exit = "none"
    /\ running' = FALSE
    /\ clearedAt' = pc
    /\ UNCHANGED <<pc, locals, speeds, writes, readout, mode, result, exit, observed>>

\* ------------------------------------------------------------------ calibrate_servo
L24_disable_readout ==
    /\ pc = "L24"
    /\ \E ok \in BOOLEAN :
        /\ readout' = IF ok THEN FALSE ELSE readout
        /\ Propagate(ok, "L25")
    /\ UNCHANGED <<running, locals, speeds, writes, mode, exit, clearedAt, observed>>

L25_set_mode ==
    /\ pc = "L25"
    /\ \E ok \in BOOLEAN :
        /\ mode' = IF ok THEN 1 ELSE mode
        /\ Propagate(ok, "L42")
    /\ UNCHANGED <<running, locals, speeds, writes, readout, exit, clearedAt, observed>>

\* line 42: start the sweep of this pass
L42_start_sweep ==
    /\ pc = "L42"
    /\ set_speed(CALIBRATION_SPEED, Direction(pass), "L45")
    /\ UNCHANGED <<running, locals, writes, readout, mode, exit, clearedAt, observed>>

\* line 45: cancellation check of the coarse loop
L45_coarse_check ==
    /\ pc = "L45"
    /\ IF running THEN pc' = "L51" /\ observed' = observed
                  ELSE pc' = "L47" /\ observed' = "coarse"
    /\ UNCHANGED <<running, locals, speeds, writes, readout, mode, result, exit, clearedAt>>

\* lines 47-48 without the `return`: the loop goes on after the stop
L47_coarse_cancel_no_return ==
    /\ pc = "L47"
    /\ set_speed(0, 1, "L51")
    /\ UNCHANGED <<running, locals, writes, readout, mode, exit, clearedAt, observed>>

\* lines 46-48 without the set_speed call: Ok(()) is returned at once
L47_coarse_cancel_no_stop ==
    /\ pc = "L47"
    /\ pc' = "L242"
    /\ result' = "Ok"
    /\ UNCHANGED <<running, locals, speeds, writes, readout, mode, exit, clearedAt, observed>>

\* lines 47-48: stop and return Ok(())
L47_coarse_cancel ==
    /\ pc = "L47"
    /\ \E ok \in BOOLEAN :
        /\ speeds' = Append(speeds, [speed |-> 0, direction |-> 1, ok |-> ok])
        /\ pc' = "L242"
        /\ result' = IF ok THEN "Ok" ELSE "Err"
    /\ UNCHANGED <<running, locals, writes, readout, mode, exit, clearedAt, observed>>

\* lines 51-55 and 123: read a sample, test it against the stall threshold
L51_coarse_read ==
    /\ pc = "L51"
    /\ \E ok \in BOOLEAN, raw \in RawCurrents :
        IF ok
        THEN /\ current' = raw
             /\ pc' = IF CoarseStall(raw) THEN "L59" ELSE "L45"
             /\ result' = result
        ELSE /\ current' = current
             /\ Propagate(FALSE, "L51")
    /\ UNCHANGED <<running, pass, fineRead, exact, max_forward, max_backward, calc,
                   speeds, writes, readout, mode, exit, clearedAt, observed>>

\* the stall branch without the stop of lines 59-60
L59_stop_skipped ==
    /\ pc = "L59"
    /\ pc' = "L64"
    /\ UNCHANGED <<running, locals, speeds, writes, readout, mode, result, exit,
                   clearedAt, observed>>

\* line 59: stop
L59_stop ==
    /\ pc = "L59"
    /\ set_speed(0, Direction(pass), "L64")
    /\ UNCHANGED <<running, locals, writes, readout, mode, exit, clearedAt, observed>>

\* line 64: back off
L64_backoff ==
    /\ pc = "L64"
    /\ set_speed(CALIBRATION_SPEED, -Direction(pass), "L68")
    /\ UNCHANGED <<running, locals, writes, readout, mode, exit, clearedAt, observed>>

\* line 68: stop after backoff
L68_stop ==
    /\ pc = "L68"
    /\ set_speed(0, -Direction(pass), "L72")
    /\ UNCHANGED <<running, locals, writes, readout, mode, exit, clearedAt, observed>>

\* lines 72-73: fine speed, then the first test of the while condition on the
\* value `current` still holds from the coarse loop
L72_fine_speed ==
    /\ pc = "L72"
    /\ \E ok \in BOOLEAN :
        /\ speeds' = Append(speeds, [speed |-> MIN_SPEED, direction |-> Direction(pass), ok |-> ok])
        /\ Propagate(ok, IF FineContinue(current) THEN "L74" ELSE "L86")
    /\ fineRead' = FALSE
    /\ UNCHANGED <<running, pass, current, exact, max_forward, max_backward, calc,
                   writes, readout, mode, exit, clearedAt, observed>>

\* the fine loop without the check of lines 74-78
L74_fine_check_ignored ==
    /\ pc = "L74"
    /\ pc' = "L80"
    /\ UNCHANGED <<running, locals, speeds, writes, readout, mode, result, exit,
                   clearedAt, observed>>

\* line 74: cancellation check of the fine loop
L74_fine_check ==
    /\ pc = "L74"
    /\ IF running THEN pc' = "L80" /\ observed' = observed
                  ELSE pc' = "L76" /\ observed' = "fine"
    /\ UNCHANGED <<running, locals, speeds, writes, readout, mode, result, exit, clearedAt>>

\* lines 76-77 without the `return`: the loop goes on after the stop
L76_fine_cancel_no_return ==
    /\ pc = "L76"
    /\ set_speed(0, 1, "L80")
    /\ UNCHANGED <<running, locals, writes, readout, mode, exit, clearedAt, observed>>

\* lines 76-77: stop and return Ok(())
L76_fine_cancel ==
    /\ pc = "L76"
    /\ \E ok \in BOOLEAN :
        /\ speeds' = Append(speeds, [speed |-> 0, direction |-> 1, ok |-> ok])
        /\ pc' = "L242"
        /\ result' = IF ok THEN "Ok" ELSE "Err"
    /\ UNCHANGED <<running, locals, writes, readout, mode, exit, clearedAt, observed>>

\* lines 80-82 and the loop test of line 73
L80_fine_read ==
    /\ pc = "L80"
    /\ \E ok \in BOOLEAN, raw \in RawCurrents :
        IF ok
        THEN /\ current' = raw
             /\ fineRead' = TRUE
             /\ pc' = IF FineContinue(raw) THEN "L74" ELSE "L86"
             /\ result' = result
        ELSE /\ current' = current
             /\ fineRead' = fineRead
             /\ Propagate(FALSE, "L80")
    /\ UNCHANGED <<running, pass, exact, max_forward, max_backward, calc,
                   speeds, writes, readout, mode, exit, clearedAt, observed>>

\* line 86: stop at exact position
L86_stop ==
    /\ pc = "L86"
    /\ set_speed(0, Direction(pass), "L89")
    /\ UNCHANGED <<running, locals, writes, readout, mode, exit, clearedAt, observed>>

\* lines 89-90: read and print the exact threshold position
L89_read_exact ==
    /\ pc = "L89"
    /\ \E ok \in BOOLEAN, position \in Positions :
        /\ exact' = IF ok THEN position ELSE exact
        /\ Propagate(ok, "L93")
    /\ UNCHANGED <<running, pass, current, fineRead, max_forward, max_backward, calc,
                   speeds, writes, readout, mode, exit, clearedAt, observed>>

\* line 93: back off again
L93_backoff ==
    /\ pc = "L93"
    /\ set_speed(CALIBRATION_SPEED, -Direction(pass), "L97")
    /\ UNCHANGED <<running, locals, writes, readout, mode, exit, clearedAt, observed>>

\* line 97: stop after final backoff
L97_stop ==
    /\ pc = "L97"
    /\ set_speed(0, -Direction(pass), "L100")
    /\ UNCHANGED <<running, locals, writes, readout, mode, exit, clearedAt, observed>>

\* lines 100-130 with `for pass in 0..1`: the loop ends after the forward sweep
L100_record_boundary_one_pass ==
    /\ pc = "L100"
    /\ \E ok \in BOOLEAN, position \in Positions :
        IF ok
        THEN /\ max_forward' = position
             /\ pc' = "L132"
             /\ result' = result
        ELSE /\ UNCHANGED max_forward
             /\ Propagate(FALSE, "L100")
    /\ UNCHANGED <<running, pass, max_backward, current, fineRead, exact, calc,
                   speeds, writes, readout, mode, exit, clearedAt, observed>>

\* lines 100-130: read the position, record it as the boundary of this pass,
\* break, and go to the next pass or leave the for loop
L100_record_boundary ==
    /\ pc = "L100"
    /\ \E ok \in BOOLEAN, position \in Positions :
        IF ok
        THEN /\ max_forward' = IF Direction(pass) = 1 THEN position ELSE max_forward
             /\ max_backward' = IF Direction(pass) = 1 THEN max_backward ELSE position
             /\ pass' = IF pass < 1 THEN pass + 1 ELSE pass
             /\ pc' = IF pass < 1 THEN "L42" ELSE "L132"
             /\ result' = result
        ELSE /\ UNCHANGED <<max_forward, max_backward, pass>>
             /\ Propagate(FALSE, "L100")
    /\ UNCHANGED <<running, current, fineRead, exact, calc,
                   speeds, writes, readout, mode, exit, clearedAt, observed>>

\* lines 132-133: final settling motion
L132_settle_move ==
    /\ pc = "L132"
    /\ set_speed(CALIBRATION_SPEED, 1, "L134")
    /\ UNCHANGED <<running, locals, writes, readout, mode, exit, clearedAt, observed>>

\* line 134
L134_settle_stop ==
    /\ pc = "L134"
    /\ set_speed(0, 1, "L141")
    /\ UNCHANGED <<running, locals, writes, readout, mode, exit, clearedAt, observed>>

\* lines 141-156: range, offset and its encoding
L141_compute ==
    /\ pc = "L141"
    /\ min_angle' = max_backward
    /\ max_angle' = NormalizedMax(max_forward, max_backward)
    /\ offset' = OffsetOf(max_angle', min_angle')
    /\ offset_value' = EncodeOffset(offset')
    /\ pc' = "L160"
    /\ UNCHANGED <<running, pass, current, fineRead, exact, max_forward, max_backward,
                   speeds, writes, readout, mode, result, exit, clearedAt, observed>>

\* line 160: unlock EEPROM
L160_unlock ==
    /\ pc = "L160"
    /\ write(SERVO_ADDR_EEPROM_WRITE, <<0>>, "L163")
    /\ UNCHANGED <<running, locals, speeds, readout, exit, clearedAt, observed>>

\* line 163: operation mode 0
L163_mode0 ==
    /\ pc = "L163"
    /\ write(SERVO_ADDR_OPERATION_MODE, <<0>>, "L167")
    /\ UNCHANGED <<running, locals, speeds, readout, exit, clearedAt, observed>>

\* lines 167-172: position correction
L167_write_correction ==
    /\ pc = "L167"
    /\ write_servo_memory(SERVO_ADDR_POSITION_CORRECTION, offset_value, "L176")
    /\ UNCHANGED <<running, locals, speeds, readout, exit, clearedAt, observed>>

\* line 176 without `?`: a failed write is ignored
L176_write_min_swallow ==
    /\ pc = "L176"
    /\ \E ok \in BOOLEAN :
        writes' = Append(writes, [address |-> SERVO_ADDR_MIN_ANGLE,
                                  data |-> LittleEndian(AsU16(min_angle)), ok |-> ok])
    /\ pc' = "L178"
    /\ UNCHANGED <<running, locals, speeds, readout, mode, result, exit, clearedAt, observed>>

\* line 176 addressing the max-angle register
L176_write_min_to_max ==
    /\ pc = "L176"
    /\ write_servo_memory(SERVO_ADDR_MAX_ANGLE, AsU16(min_angle), "L178")
    /\ UNCHANGED <<running, locals, speeds, readout, exit, clearedAt, observed>>

\* line 176: min angle
L176_write_min ==
    /\ pc = "L176"
    /\ write_servo_memory(SERVO_ADDR_MIN_ANGLE, AsU16(min_angle), "L178")
    /\ UNCHANGED <<running, locals, speeds, readout, exit, clearedAt, observed>>

\* line 178: max angle
L178_write_max ==
    /\ pc = "L178"
    /\ write_servo_memory(SERVO_ADDR_MAX_ANGLE, AsU16(max_angle), "L181")
    /\ UNCHANGED <<running, locals, speeds, readout, exit, clearedAt, observed>>

\* line 181: lock EEPROM
L181_lock ==
    /\ pc = "L181"
    /\ write(SERVO_ADDR_EEPROM_WRITE, <<1>>, "L193")
    /\ UNCHANGED <<running, locals, speeds, readout, exit, clearedAt, observed>>

\* lines 192-193: target position 2048
L193_target_position ==
    /\ pc = "L193"
    /\ write(SERVO_ADDR_TARGET_POSITION, LittleEndian(2048), "L205")
    /\ UNCHANGED <<running, locals, speeds, readout, exit, clearedAt, observed>>

\* line 205
L205_enable_readout ==
    /\ pc = "L205"
    /\ \E ok \in BOOLEAN :
        /\ readout' = IF ok THEN TRUE ELSE readout
        /\ Propagate(ok, "L209")
    /\ UNCHANGED <<running, locals, speeds, writes, mode, exit, clearedAt, observed>>

\* line 209 with `?` in place of the match: the error is propagated
L209_disable_torque_propagate ==
    /\ pc = "L209"
    /\ write(SERVO_ADDR_TORQUE_ENABLE, <<0>>, "L242")
    /\ UNCHANGED <<running, locals, speeds, readout, exit, clearedAt, observed>>

\* lines 208-213: torque disable; an Err is printed, Ok(()) is returned
L209_disable_torque ==
    /\ pc = "L209"
    /\ \E ok \in BOOLEAN :
        writes' = Append(writes, [address |-> SERVO_ADDR_TORQUE_ENABLE, data |-> <<0>>, ok |-> ok])
    /\ pc' = "L242"
    /\ result' = "Ok"
    /\ UNCHANGED <<running, locals, speeds, readout, mode, exit, clearedAt, observed>>

\* ------------------------------------------------------------------ main
\* main without the cleanup of lines 242-247: result is returned directly
L242_main_check_no_cleanup ==
    /\ pc = "L242"
    /\ pc' = "exit"
    /\ exit' = result
    /\ UNCHANGED <<running, locals, speeds, writes, readout, mode, result, clearedAt, observed>>

\* line 242: `if !running.load(..)`; line 249 returns result otherwise
L242_main_check ==
    /\ pc = "L242"
    /\ IF running THEN pc' = "exit" /\ exit' = result
                  ELSE pc' = "L245" /\ exit' = exit
    /\ UNCHANGED <<running, locals, speeds, writes, readout, mode, result, clearedAt, observed>>

\* line 245: servo.set_speed(servo_id, 0, 1)?
L245_cleanup_stop ==
    /\ pc = "L245"
    /\ \E ok \in BOOLEAN :
        /\ speeds' = Append(speeds, [speed |-> 0, direction |-> 1, ok |-> ok])
        /\ IF ok THEN pc' = "L246" /\ exit' = exit
                 ELSE pc' = "exit" /\ exit' = "Err"
    /\ UNCHANGED <<running, locals, writes, readout, mode, result, clearedAt, observed>>

\* lines 246-249: servo.enable_readout()?; result
L246_cleanup_readout ==
    /\ pc = "L246"
    /\ \E ok \in BOOLEAN :
        /\ readout' = IF ok THEN TRUE ELSE readout
        /\ exit' = IF ok THEN result ELSE "Err"
    /\ pc' = "exit"
    /\ UNCHANGED <<running, locals, speeds, writes, mode, result, clearedAt, observed>>

\* ------------------------------------------------------------------ specification
Next ==
    \/ Interrupt
    \/ L24_disable_readout
    \/ L25_set_mode
    \/ L42_start_sweep
    \/ L45_coarse_check
    \/ L47_coarse_cancel
    \/ L51_coarse_read
    \/ L59_stop
    \/ L64_backoff
    \/ L68_stop
    \/ L72_fine_speed
    \/ L74_fine_check
    \/ L76_fine_cancel
    \/ L80_fine_read
    \/ L86_stop
    \/ L89_read_exact
    \/ L93_backoff
    \/ L97_stop
    \/ L100_record_boundary
    \/ L132_settle_move
    \/ L134_settle_stop
    \/ L141_compute
    \/ L160_unlock
    \/ L163_mode0
    \/ L167_write_correction
    \/ L176_write_min
    \/ L178_write_max
    \/ L181_lock
    \/ L193_target_position
    \/ L205_enable_readout
    \/ L209_disable_torque
    \/ L242_main_check
    \/ L245_cleanup_stop
    \/ L246_cleanup_readout

Spec == Init /\ [][Next]_vars

TypeOK ==
    /\ running \in BOOLEAN
    /\ pass \in {0, 1}
    /\ current \in RawCurrents
    /\ result \in {"none", "Ok", "Err"}
    /\ exit \in {"none", "Ok", "Err"}
    /\ mode \in {0, 1}
    /\ readout \in BOOLEAN

\* ------------------------------------------------------------------ RangeCalculator alone
\* The state in which line 141 is reached after two complete sweeps: the
\* speed commands of both sweeps and of the settling motion have been issued,
\* and the two boundaries hold positions read from the encoder (0..4095).
SweepSpeeds(d) ==
    << [speed |-> CALIBRATION_SPEED, direction |-> d, ok |-> TRUE],
       [speed |-> 0, direction |-> d, ok |-> TRUE],
       [speed |-> CALIBRATION_SPEED, direction |-> -d, ok |-> TRUE],
       [speed |-> 0, direction |-> -d, ok |-> TRUE],
       [speed |-> MIN_SPEED, direction |-> d, ok |-> TRUE],
       [speed |-> 0, direction |-> d, ok |-> TRUE],
       [speed |-> CALIBRATION_SPEED, direction |-> -d, ok |-> TRUE],
       [speed |-> 0, direction |-> -d, ok |-> TRUE] >>

SpeedsAtCompute ==
    SweepSpeeds(1) \o SweepSpeeds(-1) \o
    << [speed |-> CALIBRATION_SPEED, direction |-> 1, ok |-> TRUE],
       [speed |-> 0, direction |-> 1, ok |-> TRUE] >>

EncoderPositions == 0..4095

BoundarySamples == {0, 50, 100, 2048, 3900, 4095}

\* half-width of the band of pairs taken around forward = backward
BandWidth == 1

\* <<forward, backward>> pairs: every forward against the sampled backwards,
\* every backward against the sampled forwards, and a band around the diagonal
CalcPairs ==
    (EncoderPositions \X BoundarySamples) \cup (BoundarySamples \X EncoderPositions)
    \cup UNION { { <<f, b>> : b \in ((f - BandWidth)..(f + BandWidth)) \cap EncoderPositions } :
                 f \in EncoderPositions }

InitCalc ==
    /\ pc = "L141"
    /\ running = TRUE
    /\ pass = 1
    /\ current = 15385
    /\ fineRead = TRUE
    /\ \E p \in CalcPairs :
        /\ max_forward = p[1]
        /\ max_backward = p[2]
    /\ exact = max_backward
    /\ min_angle = 0
    /\ max_angle = 0
    /\ offset = 0
    /\ offset_value = 0
    /\ speeds = SpeedsAtCompute
    /\ writes = <<>>
    /\ readout = FALSE
    /\ mode = 1
    /\ result = "none"
    /\ exit = "none"
    /\ clearedAt = "none"
    /\ observed = "none"

NextCalc ==
    \/ L141_compute
    \/ L160_unlock
    \/ L163_mode0
    \/ L167_write_correction
    \/ L176_write_min
    \/ L178_write_max

SpecCalc == InitCalc /\ [][NextCalc]_vars

\* InitCalc describes states of the full program: line 141 is reached with
\* exactly these speed commands issued (checked under Spec).
ComputeStateShape ==
    pc = "L141" /\ clearedAt = "none" /\ (\A i \in DOMAIN speeds : speeds[i].ok)
        => /\ speeds = SpeedsAtCompute
           /\ writes = <<>> /\ ~readout /\ mode = 1 /\ pass = 1
           /\ ~FineContinue(current) /\ result = "none"

\* ------------------------------------------------------------------ vocabulary of the properties
Last(q) == q[Len(q)]

\* registers of the persistence sequence that the cancellation contract protects
EepromRegisters == {55, 31, 9, 11}

\* after the fine-speed command of line 72 and before the stop of line 86
FinePhase == {"L74", "L76", "L80", "L86"}

NoEepromWrite == \A i \in DOMAIN writes : writes[i].address \notin EepromRegisters

NoOperationFailed ==
    /\ result # "Err"
    /\ exit # "Err"
    /\ \A i \in DOMAIN speeds : speeds[i].ok
    /\ \A i \in DOMAIN writes : writes[i].ok

\* range and offset have been computed (lines 141-156 executed)
Computed == pc = "L160" \/ writes # <<>>

\* value of a two-byte little-endian register
RegisterValue(data) == data[1] + 256 * data[2]

\* ------------------------------------------------------------------ C1
\* C1 (as stated): if the flag is cleared at any moment of the fine
\* re-approach phase, calibrate_servo commands zero speed, returns Ok and no
\* EEPROM-lock, position-correction, min-angle or max-angle write follows.
\* Stated for runs in which no bus operation fails and the fine loop of the
\* sweep has taken a sample of its own.
C1_CancelAnywhereInFinePhase ==
    (clearedAt \in FinePhase /\ fineRead /\ NoOperationFailed) =>
        /\ NoEepromWrite
        /\ (result # "none" => result = "Ok" /\ Last(speeds).speed = 0)

\* C1 (amended): if a cancellation check of the fine loop (line 74) observes
\* the flag cleared, the next operation is a zero-speed command, after which
\* calibrate_servo returns at once (Ok if the command succeeded, its error
\* otherwise), and no EEPROM-lock, position-correction, min-angle or
\* max-angle write occurs in the run.
C1_FineCancelObserved ==
    observed = "fine" =>
        /\ NoEepromWrite
        /\ pc \in {"L76", "L242", "L245", "L246", "exit"}
        /\ (pc # "L76" => result # "none" /\ Last(speeds).speed = 0)
        /\ (pc = "L242" => Last(speeds).ok = (result = "Ok"))

C1_Witness ==
    /\ observed = "fine"
    /\ pass = 1
    /\ pc = "exit"
    /\ exit = "Ok"

\* ------------------------------------------------------------------ C2
\* 12-bit sign-magnitude: bits 0-10 hold |offset|, bit 11 is set iff offset < 0
Abs(x) == IF x < 0 THEN -x ELSE x

SignMagnitude12(off) == (Abs(off) % 2048) + (IF off < 0 THEN 2048 ELSE 0)

PositionCorrectionWrites ==
    { i \in DOMAIN writes : writes[i].address = SERVO_ADDR_POSITION_CORRECTION }

DecodeSignMagnitude12(v) == IF v >= 2048 THEN -(v - 2048) ELSE v

\* decoding of a 12-bit two's complement value
DecodeTwosComplement12(v) == IF v >= 2048 THEN v - 4096 ELSE v

MinAngleWrites == { i \in DOMAIN writes : writes[i].address = SERVO_ADDR_MIN_ANGLE }

MaxAngleWrites == { i \in DOMAIN writes : writes[i].address = SERVO_ADDR_MAX_ANGLE }

\* C4: minAngle = backward; maxAngle = forward when backward < forward and
\* forward + 4096 when backward >= forward; the values written to the
\* min-angle and max-angle registers are these and satisfy maxAngle > minAngle.
C4_RangeNormalized ==
    Computed =>
        /\ min_angle = max_backward
        /\ (max_backward < max_forward => max_angle = max_forward)
        /\ (max_backward >= max_forward => max_angle = max_forward + 4096)
        /\ max_angle > min_angle
        /\ \A i \in MinAngleWrites : RegisterValue(writes[i].data) = max_backward
        /\ \A j \in MaxAngleWrites :
              /\ RegisterValue(writes[j].data) = max_angle
              /\ \A i \in MinAngleWrites :
                    RegisterValue(writes[j].data) > RegisterValue(writes[i].data)

\* both limits written, in a case with wraparound across the zero crossing
C4_Witness ==
    /\ pc = "L181"
    /\ max_backward >= max_forward
    /\ MinAngleWrites # {}
    /\ MaxAngleWrites # {}
    /\ \A i \in DOMAIN writes : writes[i].ok

\* ------------------------------------------------------------------ C5
\* C5: the offset computed after wraparound normalization lies in
\* -2048..2047, so that `& 0x7FF` loses no magnitude bits.
C5_OffsetInRange ==
    Computed => offset \in (-2048)..2047

\* ------------------------------------------------------------------ C6
\* C6: when a register operation fails and the run was not cancelled, a
\* zero-speed command is attempted before the error reaches the caller: the
\* process never exits with an error while a non-zero speed command was
\* accepted by the actuator and no stop was attempted after it.
C6_StopAttemptedBeforeError ==
    (pc = "exit" /\ exit = "Err" /\ running) =>
        \A i \in DOMAIN speeds :
            (speeds[i].ok /\ speeds[i].speed # 0) =>
                \E j \in (i + 1)..Len(speeds) : speeds[j].speed = 0

\* ------------------------------------------------------------------ C7
\* C7: the boundary a sweep records (max_forward, max_backward) is the position
\* read after the fine re-approach stop-and-settle (line 89), not a position
\* read after the final backoff.
C7_BoundaryIsExactPosition ==
    /\ (pc = "L42" /\ pass = 1 => max_forward = exact)
    /\ (pc = "L132" => max_backward = exact)

\* ------------------------------------------------------------------ C8
\* C8: in the coarse phase a sample at or below 500 mA never triggers the
\* stall branch and the loop has no timeout: a step of the coarse loop either
\* goes on polling, or enters the stall branch on a sample strictly above
\* 500 mA, or leaves on a cleared flag (or a failed read); no speed command is
\* issued by the polling itself.
C8_CoarseLoopStep ==
    /\ (pc = "L45" /\ pc' # pc) =>
          /\ speeds' = speeds
          /\ \/ running /\ pc' = "L51"
             \/ ~running /\ pc' = "L47" /\ observed' = "coarse"
    /\ (pc = "L51" /\ pc' # pc) =>
          /\ speeds' = speeds
          /\ \/ pc' = "L45" /\ current' * 65 <= 500 * 1000
             \/ pc' = "L59" /\ current' * 65 > 500 * 1000
             \/ pc' = "L242" /\ result' = "Err"

C8_NoStallBelowThreshold == [][C8_CoarseLoopStep]_vars

\* a sample of 499.98 mA was read and the forward sweep is still polling
C8_Witness ==
    /\ pc = "L45"
    /\ pass = 0
    /\ current = 7692
    /\ running
    /\ Len(speeds) = 1

\* ------------------------------------------------------------------ C9
\* C9: the stop that ends the fine re-approach (line 86) is issued only after
\* a sample read during the fine re-approach reported more than 1000 mA.
C9_FineStopNeedsFineSample ==
    pc = "L86" => fineRead /\ current * 65 > 1000 * 1000

\* ------------------------------------------------------------------ C10
WriteAddresses == [i \in DOMAIN writes |-> writes[i].address]

\* calibrate_servo returned without taking a cancellation exit and without a
\* failed operation
CompletedRun ==
    /\ pc \in {"L242", "L245", "L246", "exit"}
    /\ result = "Ok"
    /\ observed = "none"
    /\ \A i \in DOMAIN speeds : speeds[i].ok
    /\ \A i \in DOMAIN writes : writes[i].ok

C10_SequenceWritten ==
    CompletedRun =>
        /\ WriteAddresses = <<55, 33, 31, 9, 11, 55, 42, 40>>
        /\ writes[1].data = <<0>>
        /\ writes[2].data = <<0>>
        /\ Len(writes[3].data) = 2 /\ RegisterValue(writes[3].data) = offset_value
        /\ Len(writes[4].data) = 2 /\ RegisterValue(writes[4].data) = min_angle
        /\ Len(writes[5].data) = 2 /\ RegisterValue(writes[5].data) = max_angle
        /\ writes[6].data = <<1>>
        /\ Len(writes[7].data) = 2 /\ RegisterValue(writes[7].data) = 2048
        /\ writes[8].data = <<0>>

\* a calibration register is written only after a successful unlock and
\* before any lock
C10_InsideWindow ==
    \A i \in DOMAIN writes :
        writes[i].address \in {31, 9, 11} =>
            /\ writes[1] = [address |-> 55, data |-> <<0>>, ok |-> TRUE]
            /\ \A j \in 1..(i - 1) : ~(writes[j].address = 55 /\ writes[j].data = <<1>>)

\* readout is re-enabled after the target-position write and before the
\* torque-disable write
C10_ReadoutStep ==
    Len(writes') > Len(writes) =>
        IF Last(writes').address = 40 THEN readout /\ readout'
                                      ELSE ~readout /\ ~readout'

\* C10: in a run that completes without cancellation or failure the writes
\* are, once each and in this order, 0x37:=0, 0x21:=0, 0x1F:=encoded offset,
\* 0x09:=minAngle, 0x0B:=maxAngle, 0x37:=1, 0x2A:=2048, readout re-enabled,
\* 0x28:=0; no calibration register is written outside the unlock..lock window.
C10_PersistenceOrder ==
    [](C10_SequenceWritten /\ C10_InsideWindow) /\ [][C10_ReadoutStep]_vars

C10_Witness ==
    /\ pc = "exit"
    /\ exit = "Ok"
    /\ running
    /\ CompletedRun
    /\ Len(writes) = 8
    /\ readout

\* ------------------------------------------------------------------ C11
\* C11: when a cancellation check of a polling loop observed the flag cleared
\* and every later operation succeeds, the process ends with a zero-speed
\* command issued, no write to 0x37, 0x1F, 0x09 or 0x0B in the run, readout
\* re-enabled and a non-error result.  (A failed enable_readout of line 246
\* is the one later operation `speeds` does not record: it leaves readout
\* disabled and makes main return the error.)
C11_CancelledRunEndsClean ==
    (observed # "none" /\ pc = "exit" /\ \A i \in DOMAIN speeds : speeds[i].ok) =>
        /\ speeds # <<>>
        /\ Last(speeds).speed = 0
        /\ NoEepromWrite
        /\ result = "Ok"
        /\ \/ readout /\ exit = "Ok"
           \/ ~readout /\ exit = "Err"

\* a cancellation seen by the coarse loop of the forward sweep, cleaned up
C11_Witness ==
    /\ observed = "coarse"
    /\ pass = 0
    /\ pc = "exit"
    /\ exit = "Ok"
    /\ readout
    /\ Len(speeds) = 3

\* ------------------------------------------------------------------ C12
\* positions inside calibrate_servo
CalibratePositions ==
    {"L24", "L25", "L42", "L45", "L47", "L51", "L59", "L64", "L68", "L72", "L74",
     "L76", "L80", "L86", "L89", "L93", "L97", "L100", "L132", "L134", "L141",
     "L160", "L163", "L167", "L176", "L178", "L181", "L193", "L205", "L209"}

\* the local variables of calibrate_servo
ProgramLocals == <<pass, current, exact, max_forward, max_backward, calc>>

\* a failed write is the torque-disable write and leaves the result Ok, or
\* it is the last write issued and the result is the error
C12_FailedWrites ==
    \A i \in DOMAIN writes :
        ~writes[i].ok =>
            IF writes[i].address = 40
            THEN result = "Ok"
            ELSE result = "Err" /\ i = Len(writes)

\* a failed speed command of calibrate_servo is its last operation: at most
\* the cleanup stop of main follows it, and no write
C12_FailedSpeeds ==
    \A i \in DOMAIN speeds :
        ~speeds[i].ok =>
            \/ /\ result = "Err"
               /\ writes = <<>>
               /\ \/ i = Len(speeds)
                  \/ i = Len(speeds) - 1 /\ pc \in {"L246", "exit"}
            \/ i = Len(speeds) /\ pc = "exit" /\ exit = "Err" /\ ~running

\* a step of calibrate_servo either continues inside it with no result yet,
\* or returns; a return with Err performs nothing but the failed call, and
\* nothing of calibrate_servo runs after a return
C12_Step ==
    /\ (pc \in CalibratePositions /\ pc' # pc) =>
          \/ pc' \in CalibratePositions /\ result' = "none"
          \/ pc' = "L242" /\ result' \in {"Ok", "Err"}
    /\ (pc \in CalibratePositions /\ result' = "Err") =>
          /\ ProgramLocals' = ProgramLocals
          /\ readout' = readout
          /\ mode' = mode
          /\ Len(speeds') + Len(writes') <= Len(speeds) + Len(writes) + 1
    /\ result # "none" =>
          /\ result' = result
          /\ writes' = writes
          /\ ProgramLocals' = ProgramLocals
          /\ pc' \notin CalibratePositions

\* C12: a failure of the final torque-disable write (0x28) leaves the result
\* Ok; the failure of any other operation of calibrate_servo makes it return
\* an error without executing any later step.
C12_OnlyTorqueFailureSwallowed ==
    [](C12_FailedWrites /\ C12_FailedSpeeds) /\ [][C12_Step]_vars

\* the torque-disable write failed and the process still ends with Ok
C12_Witness ==
    /\ pc = "exit"
    /\ exit = "Ok"
    /\ Len(writes) = 8
    /\ writes[8].address = 40
    /\ ~writes[8].ok

\* ------------------------------------------------------------------ C13
\* C13: when calibrate_servo returns without a failed operation, normally or
\* through a cancellation exit, the most recent speed command is a zero-speed
\* command.
C13_StoppedAtReturn ==
    (pc = "L242" /\ result = "Ok") =>
        /\ speeds # <<>>
        /\ Last(speeds).speed = 0
        /\ Last(speeds).ok

\* the flag was cleared during the EEPROM sequence, too late to be observed
C13_Witness ==
    /\ pc = "L242"
    /\ result = "Ok"
    /\ clearedAt = "L176"
    /\ observed = "none"

\* ------------------------------------------------------------------ C14
\* C14 (as stated): once the flag has been cleared, every speed command that
\* is issued is a zero-speed command.
C14_OnlyStopsAfterClear ==
    [][(~running /\ Len(speeds') > Len(speeds)) => Last(speeds').speed = 0]_vars

\* C14 (amended): once a cancellation check (line 45 or 74) has observed the
\* flag cleared, every speed command that is issued is a zero-speed command.
C14_OnlyStopsAfterObserved ==
    [][(observed # "none" /\ Len(speeds') > Len(speeds)) => Last(speeds').speed = 0]_vars

\* the fine loop of the forward sweep saw the flag; two stops followed
C14_Witness ==
    /\ observed = "fine"
    /\ pass = 0
    /\ pc = "exit"
    /\ Len(speeds) = 7
    /\ speeds[6].speed = 0
    /\ speeds[7].speed = 0

\* ------------------------------------------------------------------ C15
\* with the flag cleared: a check leads to the cancellation exit, the exit
\* issues the zero-speed command and returns without touching the sample, and
\* a read that stays at or below the loop's threshold leads to the check
C15_Step ==
    ~running =>
        /\ (pc = "L45" /\ pc' # pc) => pc' = "L47"
        /\ (pc = "L74" /\ pc' # pc) => pc' = "L76"
        /\ (pc \in {"L47", "L76"} /\ pc' # pc) =>
              /\ pc' = "L242"
              /\ speeds' = Append(speeds, Last(speeds'))
              /\ Last(speeds').speed = 0
              /\ current' = current
        /\ (pc = "L51" /\ pc' # pc /\ result' = result /\ current' * 65 <= 500 * 1000) =>
              pc' = "L45"
        /\ (pc = "L80" /\ pc' # pc /\ result' = result /\ current' * 65 <= 1000 * 1000) =>
              pc' = "L74"

\* after a check saw the flag cleared no status read is reachable
C15_NoReadAfterCheck ==
    observed # "none" => pc \in {"L47", "L76", "L242", "L245", "L246", "exit"}

\* C15: if the flag is cleared while a sweep is in its coarse or fine polling
\* loop and the samples stay at or below the loop's threshold, at most the
\* read in progress completes; the next check issues a zero-speed command and
\* returns, and no status read follows that check.
C15_BoundedResponse ==
    []C15_NoReadAfterCheck /\ [][C15_Step]_vars

\* the flag was cleared during a fine-loop read that returned 999.96 mA
C15_Witness ==
    /\ clearedAt = "L80"
    /\ observed = "fine"
    /\ current = 15384
    /\ pc = "L242"
    /\ result = "Ok"

\* ------------------------------------------------------------------ C16
PersistenceAddresses == <<55, 33, 31, 9, 11, 55, 42>>

\* C16: a write that fails in the EEPROM sequence is the last write of the
\* run: the earlier writes of the sequence were applied, none is repeated or
\* undone, no later write (not the lock either) is issued, and the error is
\* returned.
C16_NoRollback ==
    \A i \in DOMAIN writes :
        (~writes[i].ok /\ writes[i].address # 40) =>
            /\ i = Len(writes)
            /\ i <= 7
            /\ WriteAddresses = SubSeq(PersistenceAddresses, 1, i)
            /\ \A j \in 1..(i - 1) : writes[j].ok
            /\ result = "Err"
            /\ (pc = "exit" => exit = "Err")

\* minAngle written, maxAngle failed, EEPROM left unlocked at exit
C16_Witness ==
    /\ pc = "exit"
    /\ exit = "Err"
    /\ WriteAddresses = <<55, 33, 31, 9, 11>>
    /\ writes[4].ok
    /\ ~writes[5].ok

\* ------------------------------------------------------------------ C17
\* The placeholder 0 of lines 27-28 is not among the readings of Positions,
\* so a boundary in Positions is one that line 100 has assigned.
C17_SweepsBeforeUnlock ==
    Computed =>
        /\ pass = 1
        /\ max_forward \in Positions
        /\ max_backward \in Positions
        /\ Len(speeds) >= 18
        /\ SubSeq(speeds, 1, 18) = SpeedsAtCompute
        /\ min_angle = max_backward
        /\ max_angle \in {max_forward, max_forward + 4096}
        /\ \A i \in MinAngleWrites : RegisterValue(writes[i].data) \in Positions
        /\ \A i \in MaxAngleWrites :
              RegisterValue(writes[i].data) \in {max_forward, max_forward + 4096}

\* the forward boundary is recorded first, by line 100 of pass 0, and the
\* backward boundary after it, by line 100 of pass 1
C17_RecordStep ==
    /\ max_forward' # max_forward =>
          /\ pc = "L100" /\ pass = 0
          /\ max_backward = 0 /\ max_backward' = 0
          /\ max_forward' \in Positions
    /\ max_backward' # max_backward =>
          /\ pc = "L100" /\ pass = 1
          /\ max_forward \in Positions /\ max_forward' = max_forward
          /\ max_backward' \in Positions

\* C17: the EEPROM unlock is reached only after the forward and then the
\* backward sweep have each completed and recorded a boundary; the minAngle
\* and maxAngle written derive from positions read in this run, never from
\* the initial 0 of max_forward / max_backward.
C17_BoundariesFromSweeps ==
    []C17_SweepsBeforeUnlock /\ [][C17_RecordStep]_vars

\* the unlock write succeeded after both sweeps
C17_Witness ==
    /\ pc = "L163"
    /\ Last(writes).ok
    /\ max_forward = 50
    /\ max_backward = 3900

\* ------------------------------------------------------------------ C18
\* a non-zero speed command is never directly followed by another one
C18_StopBetweenMoves ==
    \A i \in 1..(Len(speeds) - 1) :
        speeds[i].speed # 0 => speeds[i + 1].speed = 0

\* the sweep starts in the direction of the pass and the backoff pulses of
\* lines 64 and 93 go the other way
C18_DirectionStep ==
    Len(speeds') > Len(speeds) =>
        /\ pc = "L42" =>
              /\ Last(speeds').speed = 250
              /\ Last(speeds').direction = (IF pass = 0 THEN 1 ELSE -1)
        /\ pc \in {"L64", "L93"} =>
              /\ Last(speeds').speed = 250
              /\ Last(speeds').direction = (IF pass = 0 THEN -1 ELSE 1)

\* C18: every non-zero speed command is followed by a zero-speed command
\* before the next non-zero one, and each backoff pulse is opposite to the
\* direction of the current sweep.
C18_NoDirectReversal ==
    []C18_StopBetweenMoves /\ [][C18_DirectionStep]_vars

\* both sweeps done: sixteen speed commands, eight of them non-zero
C18_Witness ==
    /\ pc = "L132"
    /\ Len(speeds) = 16
    /\ speeds[11].speed = 250
    /\ speeds[11].direction = 1

\* ------------------------------------------------------------------ C19
\* C19: every speed command is issued in continuous-rotation mode (mode 1)
\* with periodic readout disabled, and the target-position write is issued
\* in position mode (mode 0); no speed command follows the switch to
\* position mode.  Stated for runs in which no operation has failed and the
\* fine loop of the latest sweep has taken a sample of its own.
C19_SpeedOnlyInContinuousMode ==
    [][ /\ (result # "Err" /\ fineRead /\ Len(speeds') > Len(speeds)) => mode = 1 /\ ~readout
        /\ (Len(writes') > Len(writes) /\ Last(writes').address = 42) => mode = 0 ]_vars

====
